---- MODULE Spec2Model ----
(***************************************************************************)
(* giza: an in-memory hierarchical store (Store, src/unnamed/part_001)     *)
(* whose mutations emit lifecycle events on a bubbling event bus           *)
(* (Bubbler, src/unnamed/part_000).                                        *)
(*                                                                         *)
(* JavaScript strings that the code takes apart (paths, node keys) are     *)
(* sequences of one-character strings, so that replace, split, lastIndexOf *)
(* and substring are computed the way the code computes them.  A node (the *)
(* Map of core/map) is a function from keys to values; a key that starts   *)
(* with "/" holds a child node, any other key holds a leaf value.  Every   *)
(* JavaScript function is an operator from a world record (the objects'    *)
(* fields plus the log of what the call did) to the world after the call.  *)
(***************************************************************************)
EXTENDS Integers, Sequences, FiniteSets, TLC

VARIABLES data, eventBus, bubbleBus, callbacks, store, last

vars == <<data, eventBus, bubbleBus, callbacks, store, last>>

-----------------------------------------------------------------------------
(* Bounds of the model *)

\* the store holds at most MaxLeaves leaf entries (over all nodes)
MaxLeaves == 1
\* at most MaxSubs wrappers are registered at any time
MaxSubs == 2

-----------------------------------------------------------------------------
(* JavaScript strings *)

SLASH == "/"

\* path.replace(/\/+$/, '')
RECURSIVE StripTrailing(_)
StripTrailing(s) ==
  IF Len(s) > 0 /\ s[Len(s)] = SLASH
    THEN StripTrailing(SubSeq(s, 1, Len(s) - 1))
    ELSE s

\* s.split('/'): the pieces between the separators; '' splits into ['']
RECURSIVE SplitFrom(_, _, _)
SplitFrom(s, i, piece) ==
  IF i > Len(s) THEN <<piece>>
  ELSE IF s[i] = SLASH THEN <<piece>> \o SplitFrom(s, i + 1, <<>>)
  ELSE SplitFrom(s, i + 1, Append(piece, s[i]))

Split(s) == SplitFrom(s, 1, <<>>)

\* s.lastIndexOf('/'): 0-based index of the last separator, -1 if none
RECURSIVE LastIndexFrom(_, _)
LastIndexFrom(s, i) ==
  IF i = 0 THEN -1
  ELSE IF s[i] = SLASH THEN i - 1
  ELSE LastIndexFrom(s, i - 1)

LastIndexOf(s) == LastIndexFrom(s, Len(s))

\* s.substring(0, n)
Substring0(s, n) == SubSeq(s, 1, n)

-----------------------------------------------------------------------------
(* JavaScript values that cross an interface *)

Undefined == [js |-> "undefined"]
Null == [js |-> "null"]
Bool(b) == [js |-> "boolean", b |-> b]
Num(n) == [js |-> "number", n |-> n]
Obj(o) == [js |-> "object", o |-> o]

NoErr == "none"
TypeError == "TypeError"

\* new Map(): an object with no own keys
EmptyMap == <<>>

\* _.has(obj, key) on an object
Has(obj, key) == key \in DOMAIN obj

\* obj[key] = val
Put(obj, key, val) ==
  [x \in (DOMAIN obj) \cup {key} |-> IF x = key THEN val ELSE obj[x]]

\* delete obj[key]
Del(obj, key) == [x \in (DOMAIN obj) \ {key} |-> obj[x]]

\* A reference to a node of the tree is the sequence of child keys that leads
\* to it from the root object this.$data.
RECURSIVE NodeAt(_, _)
NodeAt(node, ref) ==
  IF ref = <<>> THEN node ELSE NodeAt(node[Head(ref)], Tail(ref))

\* the tree after  ref[key] = val
RECURSIVE SetAt(_, _, _, _)
SetAt(node, ref, key, val) ==
  IF ref = <<>> THEN Put(node, key, val)
  ELSE Put(node, Head(ref), SetAt(node[Head(ref)], Tail(ref), key, val))

\* the tree after  delete ref[key]
RECURSIVE DelAt(_, _, _)
DelAt(node, ref, key) ==
  IF ref = <<>> THEN Del(node, key)
  ELSE Put(node, Head(ref), DelAt(node[Head(ref)], Tail(ref), key))

IsChildKey(key) == Len(key) > 0 /\ key[1] = SLASH

\* the node at reference a is the node at reference b or one above it
IsPrefix(a, b) == Len(a) <= Len(b) /\ SubSeq(b, 1, Len(a)) = a

-----------------------------------------------------------------------------
(* The world a call runs in *)

\* what a call did, in order: "emit" (Bubbler.emit entered), "dispatch"
\* (EventEmitter.emit on a bus), "call" (a subscriber's callback invoked),
\* "write" and "remove" (the store's mutation)
Entry(kind, bus, path, event, cb, id) ==
  [kind |-> kind, bus |-> bus, path |-> path, event |-> event, cb |-> cb,
   id |-> id]

Failed(w) == w.err # NoErr

\* Each statement below is an operator from the world before it to the world
\* after it; in a world where an error was thrown and not caught, the
\* statements that follow do nothing.
Logged(w, e) == IF Failed(w) THEN w ELSE [w EXCEPT !.log = Append(@, e)]

Throw(w, e) == IF Failed(w) THEN w ELSE [w EXCEPT !.err = e]

Return(w, v) == IF Failed(w) THEN w ELSE [w EXCEPT !.ret = v]

\* A save keeps nodes.current, a reference to the node object, across the
\* events it emits.  w.held lists the references held by the saves in
\* progress, innermost last, each with whether its node is still part of the
\* tree: a node that was removed from its parent lives on as an object that
\* the tree no longer reaches.
Hold(w, ref) == [w EXCEPT !.held = Append(@, [ref |-> ref, live |-> TRUE])]

Release(w) ==
  IF Failed(w) THEN w ELSE [w EXCEPT !.held = SubSeq(@, 1, Len(@) - 1)]

\* the held references after the node at ref was removed from the tree
Detach(held, ref) ==
  [i \in DOMAIN held |->
     IF IsPrefix(ref, held[i].ref) THEN [held[i] EXCEPT !.live = FALSE]
                                   ELSE held[i]]

-----------------------------------------------------------------------------
(* Store: path resolution (src/unnamed/part_001) *)

\* the while loop of parsePath; parent and dirName are <<>> while still
\* null/undefined and a one-element sequence once assigned
RECURSIVE parsePathLoop(_, _, _, _, _, _, _)
parsePathLoop(layers, tree, parentNode, curNode, thisLayer, created, create) ==
  IF layers = <<>>
    THEN [ok |-> TRUE, parent |-> parentNode, current |-> curNode,
          dirName |-> thisLayer, created |-> created, data |-> tree]
    ELSE
      LET layer == <<SLASH>> \o Head(layers)
          missing == ~Has(NodeAt(tree, curNode), layer)
      IN  IF missing /\ ~create
            THEN [ok |-> FALSE, parent |-> <<>>, current |-> <<>>,
                  dirName |-> <<>>, created |-> FALSE, data |-> tree]
            ELSE parsePathLoop(
                   Tail(layers),
                   IF missing THEN SetAt(tree, curNode, layer, EmptyMap) ELSE tree,
                   <<curNode>>,
                   Append(curNode, layer),
                   <<layer>>,
                   created \/ missing,
                   create)

\* a mutant of parsePath: creation is not reported
parsePathNoCreatedFlag(path, tree, create) ==
  [parsePathLoop(Tail(Split(path)), tree, <<>>, <<>>, <<>>, FALSE, create)
     EXCEPT !.created = FALSE]

\* parsePath(path, data, create): ok = FALSE is the code's `return false`
parsePath(path, tree, create) ==
  parsePathLoop(Tail(Split(path)), tree, <<>>, <<>>, <<>>, FALSE, create)

-----------------------------------------------------------------------------
(* Store.get *)

Str(s) == [js |-> "string", s |-> s]

Truthy(v) == v.js = "boolean" /\ v.b

\* _.pick(node, keys not starting with '/')
LeafEntries(node) == [k \in {x \in DOMAIN node : ~IsChildKey(x)} |-> node[k]]

\* the value read from a node, as a JavaScript value: a child node is an
\* object, a leaf holds the JavaScript value that was saved
ValueOf(v, isChild) == IF isChild THEN Obj(v) ELSE v

\* the arguments after path say no key: arguments.length < 2 or key undefined
NoKey(args) == Len(args) < 1 \/ args[1].js = "undefined"

\* get after the path was resolved into nodes; args are the arguments after
\* path.  When the path does not resolve, nodes is false and nodes.current is
\* undefined: _.keys(undefined) and _.has(undefined, key) throw a TypeError in
\* the underscore releases that do not guard their argument (w.lib = "strict")
\* and answer [] and false in those that do (w.lib = "lenient").
getAt(w, args, nodes) ==
  LET n == 1 + Len(args)
      key == IF n >= 2 THEN args[1] ELSE Undefined
      rec0 == IF n >= 3 THEN args[2] ELSE Undefined
      noKey == n < 2 \/ key.js = "undefined" \/ key.js = "boolean"
      recursive ==
        IF n < 3 \/ rec0.js = "undefined"
          THEN (IF n >= 2 /\ key.js = "boolean" THEN key ELSE Bool(FALSE))
          ELSE rec0
  IN  IF noKey
        THEN IF Truthy(recursive)
               THEN Return(w, IF nodes.ok THEN Obj(NodeAt(w.data, nodes.current))
                                           ELSE Undefined)
               ELSE IF nodes.ok
                      THEN Return(w, Obj(LeafEntries(NodeAt(w.data, nodes.current))))
                      ELSE IF w.lib = "strict" THEN Throw(w, TypeError)
                                               ELSE Return(w, Obj(EmptyMap))
        ELSE IF ~nodes.ok
               THEN IF w.lib = "strict" THEN Throw(w, TypeError)
                                        ELSE Return(w, Undefined)
               ELSE IF ~Has(NodeAt(w.data, nodes.current), key.s)
                      THEN Return(w, Undefined)
                      ELSE Return(w, ValueOf(NodeAt(w.data, nodes.current)[key.s],
                                             IsChildKey(key.s)))

\* Store.get(path, key, recursive)
get(w, path0, args) ==
  getAt(w, args, parsePath(StripTrailing(path0), w.data, FALSE))

\* exists after the path was resolved into nodes
existsAt(w, args, nodes) ==
  IF ~nodes.ok THEN Return(w, Bool(FALSE))
  ELSE IF NoKey(args) THEN Return(w, Bool(TRUE))
  ELSE Return(w, Bool(Has(NodeAt(w.data, nodes.current), args[1].s)))

\* a mutant of exists: the path is resolved in create mode
existsCreating(w, path0, args) ==
  Return([w EXCEPT !.data = parsePath(StripTrailing(path0), @, TRUE).data],
         Bool(TRUE))

\* Store.exists(path, key)
exists(w, path0, args) ==
  existsAt(w, args, parsePath(StripTrailing(path0), w.data, FALSE))

-----------------------------------------------------------------------------
(* Bubbler (src/unnamed/part_000) *)

\* PathUtil.cleanPath (core/path-util): a run of trailing separators is
\* stripped; the empty string that remains for "/" denotes the root
cleanPath(path) == StripTrailing(path)

\* an event given to emit: a plain name, or an object {name, triggered}
Plain(name) == [obj |-> FALSE, name |-> name, triggered |-> Undefined]
Structured(name, t) == [obj |-> TRUE, name |-> name, triggered |-> t]

\* a filter constraint (types or names): undefined, a string, an array of
\* strings, or some other value (a number stands for those)
StrList(a) == [js |-> "array", a |-> a]
Filter(types, names) == [types |-> types, names |-> names]

\* options.filters is absent: `options.filters || false` is false, wrapped
\* into the array [false]; false.types and false.names read as undefined
NoFilters == <<Filter(Undefined, Undefined)>>

Contains(a, v) == \E i \in 1..Len(a) : a[i] = v

\* a mutant of Constraint: a value that is neither a string nor an array is
\* a constraint that does not match
ConstraintNoThrow(c, v, emptyPasses) ==
  IF c.js = "undefined" \/ (emptyPasses /\ c.js = "string" /\ c.s = "")
    THEN "pass"
  ELSE IF c.js = "array"
    THEN (IF Len(c.a) > 0 /\ ~(v.js = "string" /\ Contains(c.a, v.s))
            THEN "fail" ELSE "pass")
  ELSE IF c.js = "string" /\ v.js = "string" /\ v.s = c.s THEN "pass"
  ELSE "fail"

\* one constraint of matchFilter against the event's type (a JavaScript
\* value) or name: "pass", "fail" (return false) or "throw"
Constraint(c, v, emptyPasses) ==
  IF c.js = "undefined" \/ (emptyPasses /\ c.js = "string" /\ c.s = "")
    THEN "pass"
  ELSE IF c.js = "array"
    THEN (IF Len(c.a) > 0 /\ ~(v.js = "string" /\ Contains(c.a, v.s))
            THEN "fail" ELSE "pass")
  ELSE IF c.js = "string"
    THEN (IF v.js = "string" /\ v.s = c.s THEN "pass" ELSE "fail")
  ELSE "throw"

\* the for loop of matchFilter from index i on
RECURSIVE matchFilterFrom(_, _, _, _)
matchFilterFrom(eventName, type, filters, i) ==
  IF i > Len(filters) THEN "pass"
  ELSE
    LET t == Constraint(filters[i].types, type, FALSE)
        n == Constraint(filters[i].names, Str(eventName), TRUE)
    IN  IF t # "pass" THEN t
        ELSE IF n # "pass" THEN n
        ELSE matchFilterFrom(eventName, type, filters, i + 1)

\* matchFilter(eventName, type, filters): "pass" is true, "fail" is false,
\* "throw" is the Error for an invalid types/names value
matchFilter(eventName, type, filters) ==
  matchFilterFrom(eventName, type, filters, 1)

\* the listeners registered on a bus for an event type (here: a path)
Listeners(bus, type) == IF type \in DOMAIN bus THEN bus[type] ELSE <<>>

\* The functions callers subscribe, callback.apply(null, arguments) running
\* their code: "f" only takes note of the event, "boom" throws, and "del"
\* answers a pre-update event by deleting the node /a from the store
\*   function (event) { if (event === 'pre-update') store.delete('/a'); }
RECURSIVE delete(_, _, _)
\* a mutant of callback: what a callback throws is caught and dropped
callbackCaught(w, cb, event) ==
  IF cb = "del" /\ event = "pre-update"
    THEN Return(delete(w, <<SLASH, "a">>, <<>>), w.ret)
  ELSE w

callback(w, cb, event) ==
  IF cb = "boom" THEN Throw(w, "ListenerError")
  ELSE IF cb = "del" /\ event = "pre-update"
    THEN Return(delete(w, <<SLASH, "a">>, <<>>), w.ret)
  ELSE w

\* the wrapper subscribe registers around callback; sub is the wrapper's
\* closure [id, cb, filters, triggered]; busName and type say where it was
\* dispatched.  filters is always an array, so `!filters` is false.
\* a mutant of filteredCallbackOn: the triggered option is not looked at
filteredCallbackUngated(w, sub, busName, type, event, source, m) ==
  IF m = "throw" THEN Throw(w, "Error")
  ELSE IF m = "pass"
    THEN callback(Logged(w, Entry("call", busName, type, event, sub.cb, sub.id)),
                  sub.cb, event)
    ELSE w

filteredCallbackOn(w, sub, busName, type, event, source, m) ==
  IF m = "throw" THEN Throw(w, "Error")
  ELSE IF m = "pass" /\ (Truthy(sub.triggered) \/ source.triggered = Bool(FALSE))
    THEN callback(Logged(w, Entry("call", busName, type, event, sub.cb, sub.id)),
                  sub.cb, event)
    ELSE w

filteredCallback(w, sub, busName, type, event, source) ==
  filteredCallbackOn(w, sub, busName, type, event, source,
                     matchFilter(event, source.type, sub.filters))

\* the listeners of one dispatch, in registration order
RECURSIVE callListeners(_, _, _, _, _, _)
callListeners(w, ls, busName, type, event, source) ==
  IF ls = <<>> \/ Failed(w) THEN w
  ELSE callListeners(filteredCallback(w, Head(ls), busName, type, event, source),
                     Tail(ls), busName, type, event, source)

BusOf(w, busName) == IF busName = "direct" THEN w.eventBus ELSE w.bubbleBus

\* bus.emit(type, event, source, ...): EventEmitter.emit on this.$eventBus
\* ("direct") or this.$bubbleBus ("bubble")
busEmit(w, busName, type, event, source) ==
  IF Failed(w) THEN w
  ELSE callListeners(Logged(w, Entry("dispatch", busName, type, event, "", 0)),
                     Listeners(BusOf(w, busName), type),
                     busName, type, event, source)

\* bubbleEvent(path, event, bus, args): args[0] is the path dispatched on
RECURSIVE bubbleEvent(_, _, _, _)
bubbleEvent(w, path, event, source) ==
  LET lastSlash == LastIndexOf(path)
      up == Substring0(path, lastSlash)
  IN  IF Failed(w) \/ lastSlash = -1 THEN w
      ELSE IF up = <<>>
        THEN busEmit(w, "bubble", <<SLASH>>, event, source)
        ELSE bubbleEvent(busEmit(w, "bubble", up, event, source), up, event, source)

\* Store has no getType: this.$store.getType(path) is a call of undefined
storeGetType(w, path) == Throw(w, TypeError)

\* the try block of emit, g being the world after this.$store.get(path): obj
\* and type as the block or its catch leaves them
LookedUp(g, path) ==
  IF Failed(storeGetType(g, path))
    THEN [obj |-> Null, type |-> Null]
    ELSE [obj |-> g.ret, type |-> storeGetType(g, path).ret]

\* the source descriptor emit builds; extra are the arguments after event
SourceFrom(hasStore, path, event, extra, looked) ==
  [path |-> path,
   triggered |-> IF event.obj THEN event.triggered ELSE Bool(FALSE),
   obj |-> IF ~hasStore THEN Undefined
           ELSE IF ~event.obj /\ event.name = "delete" /\ Len(extra) = 2
             THEN extra[2]
           ELSE looked.obj,
   type |-> IF ~hasStore THEN Undefined
            ELSE IF ~event.obj /\ event.name = "delete" /\ Len(extra) = 2
              THEN extra[1]
            ELSE looked.type]

Source(w, path, event, extra) ==
  SourceFrom(w.store, path, event, extra, LookedUp(get(w, path, <<>>), path))

\* emit from `emit locally` on: the direct bus at path, then the bubbling
emitFrom(w, path, name, source) ==
  bubbleEvent(busEmit(Logged(w, Entry("emit", "", path, name, "", 0)),
                      "direct", path, name, source),
              path, name, source)

\* Bubbler.emit(path, event, ...extra)
emit(w, path0, event, extra) ==
  IF Failed(w) THEN w
  ELSE emitFrom(w, cleanPath(path0), event.name,
                Source(w, cleanPath(path0), event, extra))

-----------------------------------------------------------------------------
(* Store.save and Store.delete *)

\* a mutant of createMode: every save is a create
createModeAlways(nodes, key) == TRUE

\* createMode of save: `var createMode = nodes.created` and the if after it,
\* which assigns true only when createMode is already true
createMode(nodes, key) ==
  IF nodes.created /\ ~Has(NodeAt(nodes.data, nodes.current), key)
    THEN TRUE
    ELSE nodes.created

\* a mutant of writeKey: the value is written on the root node
writeKeyAtRoot(w, ref, path, key, val) ==
  Logged([w EXCEPT !.data = SetAt(@, <<>>, key, val)],
         Entry("write", "", path, "", "", 0))

\* nodes.current[key] = val: the write reaches the tree if the node that
\* nodes.current refers to (the reference held last) is still part of it
writeKey(w, ref, path, key, val) ==
  IF Failed(w) THEN w
  ELSE Logged([w EXCEPT !.data = IF w.held[Len(w.held)].live
                                   THEN SetAt(@, ref, key, val)
                                   ELSE @],
              Entry("write", "", path, "", "", 0))

\* if (cond) this.$bubbler.emit(path, name)
Fire(cond, w, path, name) ==
  IF cond THEN emit(w, path, Plain(name), <<>>) ELSE w

\* a mutant of saveAt: the key is written before the first event is emitted
saveAtWriteFirst(w, path, key, val, nodes) ==
  Release(
    Fire(TRUE,
      Fire(createMode(nodes, key),
        Fire(TRUE,
          Fire(createMode(nodes, key),
               writeKey(Hold([w EXCEPT !.data = nodes.data], nodes.current),
                        nodes.current, path, key, val),
               path, "pre-create"),
          path, "pre-update"),
        path, "post-create"),
      path, "post-update"))

\* save after the path was resolved into nodes (in create mode, which left
\* the tree nodes.data): the statements of save in their order, innermost
\* first
saveAt(w, path, key, val, nodes) ==
  Release(
    Fire(TRUE,
      Fire(createMode(nodes, key),
        writeKey(
          Fire(TRUE,
            Fire(createMode(nodes, key),
                 Hold([w EXCEPT !.data = nodes.data], nodes.current),
                 path, "pre-create"),
            path, "pre-update"),
          nodes.current, path, key, val),
        path, "post-create"),
      path, "post-update"))

\* Store.save(path, key, val)
save(w, path0, key, val) ==
  saveAt(w, StripTrailing(path0), key, val,
         parsePath(StripTrailing(path0), w.data, TRUE))

\* delete nodes.parent[nodes.dirName]: nodes is false when the path did not
\* resolve and nodes.parent is null for the root; a property of undefined or
\* null cannot be deleted (TypeError)
removeNode(w, nodes, path) ==
  IF Failed(w) THEN w
  ELSE IF ~nodes.ok \/ nodes.parent = <<>> THEN Throw(w, TypeError)
  ELSE Logged([w EXCEPT !.data = DelAt(@, nodes.parent[1], nodes.dirName[1]),
                         !.held = Detach(@, nodes.current)],
              Entry("remove", "", path, "", "", 0))

\* delete nodes.current[key]
removeKey(w, nodes, path, key) ==
  IF Failed(w) THEN w
  ELSE Logged([w EXCEPT !.data = DelAt(@, nodes.current, key)],
              Entry("remove", "", path, "", "", 0))

\* a mutant of deleteAt: an absent key is deleted like a present one
deleteAtAbsentToo(w, path, args, nodes) ==
  IF NoKey(args)
    THEN Return(Fire(TRUE,
                     removeNode(Fire(TRUE, w, path, "pre-delete"), nodes, path),
                     path, "post-delete"),
                Bool(TRUE))
  ELSE IF ~nodes.ok THEN Throw(w, TypeError)
  ELSE Return(Fire(TRUE,
                   removeKey(Fire(TRUE, w, path, "pre-delete"),
                             nodes, path, args[1].s),
                   path, "post-delete"),
              Bool(TRUE))

\* delete after the path was resolved into nodes (false when it does not
\* resolve); args are the arguments after path
deleteAt(w, path, args, nodes) ==
  IF NoKey(args)
    THEN Return(Fire(TRUE,
                     removeNode(Fire(TRUE, w, path, "pre-delete"), nodes, path),
                     path, "post-delete"),
                Bool(TRUE))
  ELSE IF ~nodes.ok
    THEN (IF w.lib = "strict" THEN Throw(w, TypeError)
                              ELSE Return(w, Bool(FALSE)))
  ELSE IF ~Has(NodeAt(w.data, nodes.current), args[1].s)
    THEN Return(w, Bool(FALSE))
  ELSE Return(Fire(TRUE,
                   removeKey(Fire(TRUE, w, path, "pre-delete"),
                             nodes, path, args[1].s),
                   path, "post-delete"),
              Bool(TRUE))

\* Store.delete(path, key)
delete(w, path0, args) ==
  deleteAt(w, StripTrailing(path0), args,
           parsePath(StripTrailing(path0), w.data, FALSE))

-----------------------------------------------------------------------------
(* Bubbler: the registries *)

\* this.$callbacks[callback]: the property name is the function converted to
\* a string, its source text; the callbacks of the model are distinct named
\* functions
FnText(cb) == <<"function", cb>>

\* bus.on(type, listener)
On(bus, type, listener) == Put(bus, type, Append(Listeners(bus, type), listener))

\* the wrappers still referenced by a bus or by this.$callbacks
WrappersOf(bus) ==
  UNION {{bus[t][i] : i \in 1..Len(bus[t])} : t \in DOMAIN bus}

Wrappers(w) ==
  WrappersOf(w.eventBus) \cup WrappersOf(w.bubbleBus)
    \cup {w.callbacks[k] : k \in DOMAIN w.callbacks}

\* a new closure is identical to no wrapper that still exists
FreshId(w) ==
  LET used == {x.id : x \in Wrappers(w)}
  IN  CHOOSE n \in 1..(Cardinality(used) + 1) :
        n \notin used /\ \A m \in 1..(n - 1) : m \in used

\* Bubbler.subscribe(path, callback, options); nargs is arguments.length and
\* options a JavaScript value: undefined, a boolean, or an object
subscribe(w, path0, cb, nargs, options) ==
  LET opts == IF options.js = "object" THEN options.o ELSE EmptyMap
      bubble == IF Has(opts, "bubble") THEN opts["bubble"] ELSE Bool(TRUE)
      given == IF Has(opts, "filters") THEN opts["filters"] ELSE Undefined
      filters == IF given.js = "array" THEN given.a
                 ELSE IF given.js = "object" THEN <<given.o>>
                 ELSE NoFilters
      triggered == IF Has(opts, "triggered") THEN opts["triggered"] ELSE Bool(TRUE)
      path == cleanPath(path0)
      wrapper == [id |-> FreshId(w), cb |-> cb, filters |-> filters,
                  triggered |-> triggered]
      w1 == [w EXCEPT !.callbacks = Put(@, FnText(cb), wrapper),
                      !.eventBus = On(@, path, wrapper)]
  IN  IF nargs < 3 \/ bubble.js = "undefined" \/ Truthy(bubble)
        THEN [w1 EXCEPT !.bubbleBus = On(@, path, wrapper)]
        ELSE w1

\* bus.removeListener(type, listener): the listener's latest registration for
\* the type is removed, and the type with its last listener
RemoveListener(bus, type, listener) ==
  LET ls == Listeners(bus, type)
      at == {i \in 1..Len(ls) : ls[i] = listener}
      last_ == CHOOSE i \in at : \A j \in at : j <= i
      rest == SubSeq(ls, 1, last_ - 1) \o SubSeq(ls, last_ + 1, Len(ls))
  IN  IF at = {} THEN bus
      ELSE IF rest = <<>> THEN Del(bus, type)
      ELSE Put(bus, type, rest)

\* a mutant of unsubscribe: the wrapper is removed wherever it is registered
unsubscribeEverywhere(w, path0, cb) ==
  LET known == Has(w.callbacks, FnText(cb))
      wrapper == w.callbacks[FnText(cb)]
      Without(bus) ==
        LET kept == {t \in DOMAIN bus : \E i \in 1..Len(bus[t]) : bus[t][i] # wrapper}
        IN  [t \in kept |-> SelectSeq(bus[t], LAMBDA l : l # wrapper)]
      w1 == IF known
              THEN [w EXCEPT !.eventBus = Without(@), !.bubbleBus = Without(@)]
              ELSE w
  IN  [w1 EXCEPT !.callbacks = Del(@, FnText(cb))]

\* Bubbler.unsubscribe(path, callback)
unsubscribe(w, path0, cb) ==
  LET path == cleanPath(path0)
      known == Has(w.callbacks, FnText(cb))
      wrapper == w.callbacks[FnText(cb)]
      w1 == IF known
              THEN [w EXCEPT !.eventBus = RemoveListener(@, path, wrapper),
                             !.bubbleBus = RemoveListener(@, path, wrapper)]
              ELSE w
  IN  [w1 EXCEPT !.callbacks = Del(@, FnText(cb))]

\* Bubbler.clearSubscriptions(path): the path is used as it is given
clearSubscriptions(w, path) ==
  LET ls == Listeners(w.eventBus, path) \o Listeners(w.bubbleBus, path)
      cleared == {k \in DOMAIN w.callbacks : Contains(ls, w.callbacks[k])}
  IN  [w EXCEPT !.callbacks = [k \in (DOMAIN @) \ cleared |-> @[k]],
                !.eventBus = Del(@, path),
                !.bubbleBus = Del(@, path)]

\* Bubbler.setStore(store)
setStore(w) == [w EXCEPT !.store = TRUE]

-----------------------------------------------------------------------------
(* The state machine *)

ROOT == <<SLASH>>
A == <<SLASH, "a">>
AB == <<SLASH, "a", SLASH, "b">>
BTrail == <<SLASH, "b", SLASH>>

\* the paths callers pass: the root, a node, a node below it, and a sibling
\* written with a trailing separator
PathArgs == {ROOT, A, AB, BTrail}

\* the keys callers pass (none starts with the separator)
KeyArgs == {<<"x">>, <<"y">>}

\* the leaf values callers save
Vals == {Num(1), Num(2)}

Callbacks == {"f"}

\* the underscore release the build resolves to; it decides what get and
\* delete do with a path that does not resolve.  The other calls never hand
\* underscore an undefined object (save, exists) or catch the error
\* (the store lookup of emit), so they run the same under both.
Libs == {"strict", "lenient"}
AnyLib == "lenient"

RECURSIVE LeafCount(_)
LeafCount(node) ==
  LET RECURSIVE Sum(_)
      Sum(keys) ==
        IF keys = {} THEN 0
        ELSE LET k == CHOOSE x \in keys : TRUE
             IN  (IF IsChildKey(k) THEN LeafCount(node[k]) ELSE 1) + Sum(keys \ {k})
  IN  Sum(DOMAIN node)

\* the world at the start of a call
World(lib) ==
  [data |-> data, eventBus |-> eventBus, bubbleBus |-> bubbleBus,
   callbacks |-> callbacks, store |-> store, lib |-> lib, held |-> <<>>,
   log |-> <<>>, err |-> NoErr, ret |-> Undefined]

\* the state a call leaves behind: the objects' fields, and the record of
\* the call (what was called, what it returned or threw, what it did, and
\* the tree it started from)
Commit(w, op, path, args) ==
  /\ data' = w.data
  /\ eventBus' = w.eventBus
  /\ bubbleBus' = w.bubbleBus
  /\ callbacks' = w.callbacks
  /\ store' = w.store
  /\ last' = [op |-> op, path |-> path, args |-> args, ret |-> w.ret,
              err |-> w.err, log |-> w.log, pre |-> data]

Init ==
  /\ data = EmptyMap
  /\ eventBus = EmptyMap
  /\ bubbleBus = EmptyMap
  /\ callbacks = EmptyMap
  /\ store = FALSE
  /\ last = [op |-> "new", path |-> <<>>, args |-> <<>>, ret |-> Undefined,
             err |-> NoErr, log |-> <<>>, pre |-> EmptyMap]

Save(p, k, v) ==
  /\ LeafCount(save(World(AnyLib), p, k, v).data) <= MaxLeaves
  /\ Commit(save(World(AnyLib), p, k, v), "save", p, <<Str(k), v>>)

Delete(p, args) ==
  \E lib \in Libs :
    /\ Commit(delete(World(lib), p, args), "delete", p, args)

Get(p, args) ==
  \E lib \in Libs :
    /\ Commit(get(World(lib), p, args), "get", p, args)

Exists(p, args) ==
  /\ Commit(exists(World(AnyLib), p, args), "exists", p, args)

\* the argument lists after path of delete and exists: none, or a key
KeyArgLists == {<<>>} \cup {<<Str(k)>> : k \in KeyArgs}

\* the argument lists after path of get: none, the recursive flag, or a key
GetArgLists == KeyArgLists \cup {<<Bool(TRUE)>>}

NextStore ==
  \/ \E p \in PathArgs, k \in KeyArgs, v \in Vals : Save(p, k, v)
  \/ \E p \in PathArgs, args \in KeyArgLists : Delete(p, args)
  \/ \E p \in PathArgs, args \in GetArgLists : Get(p, args)
  \/ \E p \in PathArgs, args \in KeyArgLists : Exists(p, args)

\* the store used on its own: no subscriber is ever registered
SpecStore == Init /\ [][NextStore]_vars

\* options of subscribe: left out (bubble defaults to true), or {bubble: false}
OptionArgs == {Undefined, Obj([bubble |-> Bool(FALSE)])}

\* the events callers emit
EventArgs == {Plain("change")}

Subscribe(p, cb, options) ==
  /\ Cardinality(Wrappers(World(AnyLib))) < MaxSubs
  /\ Commit(subscribe(World(AnyLib), p, cb,
                      IF options = Undefined THEN 2 ELSE 3, options),
            "subscribe", p, <<Str(cb), options>>)

Unsubscribe(p, cb) ==
  /\ Commit(unsubscribe(World(AnyLib), p, cb), "unsubscribe", p, <<Str(cb)>>)

ClearSubscriptions(p) ==
  /\ Commit(clearSubscriptions(World(AnyLib), p), "clearSubscriptions", p, <<>>)

Emit(p, event) ==
  /\ Commit(emit(World(AnyLib), p, event, <<>>), "emit", p, <<event>>)

SetStore ==
  /\ ~store
  /\ Commit(setStore(World(AnyLib)), "setStore", <<>>, <<>>)

\* the store and its bubbler together: callers subscribe and emit, and the
\* store's lifecycle events reach the subscribers
Next ==
  \/ \E p \in PathArgs, cb \in Callbacks, o \in OptionArgs : Subscribe(p, cb, o)
  \/ \E p \in PathArgs, cb \in Callbacks : Unsubscribe(p, cb)
  \/ \E p \in PathArgs : ClearSubscriptions(p)
  \/ \E p \in PathArgs, e \in EventArgs : Emit(p, e)
  \/ SetStore
  \/ Save(A, <<"x">>, Num(1))
  \/ Delete(A, <<>>)

Spec == Init /\ [][Next]_vars

-----------------------------------------------------------------------------
(* Subscriptions with filters and a triggered option *)

\* the type of the objects the callers of this part save
USER == Str("user")

\* options.filters, as one filter object or as an array of them
OneFilter(f) == Obj([filters |-> Obj(f)])
Filters(fs) == Obj([filters |-> [js |-> "array", a |-> fs]])

\* the options callers pass to subscribe: filters on the type (a list, an
\* empty list, a string), on the name, a value that is neither a string nor
\* a list in first or in second place, and triggered: false
FilterOptionArgs ==
  {OneFilter(Filter(StrList(<<"user">>), Undefined)),
   OneFilter(Filter(StrList(<<>>), Undefined)),
   OneFilter(Filter(Undefined, Str("change"))),
   OneFilter(Filter(Undefined, Num(5))),
   Filters(<<Filter(Str("user"), Undefined), Filter(Undefined, Num(5))>>),
   Obj([triggered |-> Bool(FALSE)]),
   Obj([triggered |-> Bool(FALSE),
        filters |-> Obj(Filter(StrList(<<"user">>), Undefined))])}

\* the events callers emit: a name, or an object {name, triggered}
FilterEventArgs ==
  {Plain("change"), Structured("change", Bool(TRUE)),
   Structured("change", Bool(FALSE))}

\* emit(path, 'delete', type, obj): the type and the object are given
EmitDeleted(p, type, obj) ==
  /\ Commit(emit(World(AnyLib), p, Plain("delete"), <<type, obj>>),
            "emit", p, <<Plain("delete"), type, obj>>)

\* a Bubbler with filtered subscriptions at /a, a store attached to it or
\* not, and an object of type 'user' saved at /a or not
NextFilter ==
  \/ \E o \in FilterOptionArgs : Subscribe(A, "f", o)
  \/ \E p \in {A, AB}, e \in FilterEventArgs : Emit(p, e)
  \/ EmitDeleted(A, USER, Null)
  \/ ClearSubscriptions(A)
  \/ SetStore
  \/ Save(A, <<"x">>, USER)

SpecFilter == Init /\ [][NextFilter]_vars

-----------------------------------------------------------------------------
(* Listeners that throw and listeners that re-enter the store *)

\* the callbacks subscribed in this part
ListenerArgs == {"f", "boom", "del"}

\* a store whose lifecycle events reach listeners of each kind at /a and a
\* throwing listener at /a/b
NextListen ==
  \/ \E cb \in ListenerArgs : Subscribe(A, cb, Undefined)
  \/ Subscribe(AB, "boom", Undefined)
  \/ \E p \in {A, AB} : ClearSubscriptions(p)
  \/ \E p \in {A, AB} : Save(p, <<"x">>, Num(1))
  \/ Delete(A, <<>>)
  \/ Emit(AB, Plain("change"))

SpecListen == Init /\ [][NextListen]_vars

-----------------------------------------------------------------------------
(* The facade (src/lib/main.js) *)

\* a function given as a value
Fn(cb) == [js |-> "function", cb |-> cb]

\* a value used as a property name: an object reads as "[object Object]"
KeyArg(v) == IF v.js = "object" THEN Str(<<"[object Object]">>) ELSE v

\* Giza.get after this.$store.get.apply(this.$store, arguments) left the
\* world g: options.recursive of an undefined options is a TypeError; the
\* callback is subscribed with `recursive` as the third argument
gizaGetWith(g, path, options) ==
  IF Failed(g) THEN g
  ELSE IF options.js # "object" THEN Throw(g, TypeError)
  ELSE IF Has(options.o, "callback")
    THEN Return(subscribe(g, path, options.o["callback"].cb, 3,
                          Bool(Has(options.o, "recursive")
                                 /\ Truthy(options.o["recursive"]))),
                g.ret)
  ELSE g

\* Giza.get(path, options); args are the arguments after path
gizaGet(w, path, args) ==
  gizaGetWith(get(w, path, [i \in DOMAIN args |-> KeyArg(args[i])]),
              path, IF args = <<>> THEN Undefined ELSE args[1])

\* the options callers pass to Giza.get: a callback, with recursive left
\* out, false or true
GizaOptionArgs ==
  {Obj([callback |-> Fn("f")]),
   Obj([callback |-> Fn("f"), recursive |-> Bool(FALSE)]),
   Obj([callback |-> Fn("f"), recursive |-> Bool(TRUE)])}

GizaGet(p, args) ==
  \E lib \in Libs :
    /\ Cardinality(Wrappers(World(lib))) < MaxSubs
    /\ Commit(gizaGet(World(lib), p, args), "gizaGet", p, args)

\* the facade in use: Giza.get with a callback, Giza.emit and Giza.save
\* (which forward their arguments), on the Bubbler without store that Giza
\* constructs
NextFacade ==
  \/ \E p \in PathArgs, args \in {<<>>} \cup {<<o>> : o \in GizaOptionArgs} :
       GizaGet(p, args)
  \/ \E p \in PathArgs, e \in EventArgs : Emit(p, e)
  \/ \E p \in PathArgs : ClearSubscriptions(p)
  \/ Save(A, <<"x">>, Num(1))

SpecFacade == Init /\ [][NextFacade]_vars

-----------------------------------------------------------------------------
(* What the claims speak of *)

\* the node a path names, as the child keys from the root
RefOf(p) ==
  LET segs == Tail(Split(StripTrailing(p)))
  IN  [i \in 1..Len(segs) |-> <<SLASH>> \o segs[i]]

\* the references of all nodes of a tree
RECURSIVE NodeRefs(_)
NodeRefs(tree) ==
  {<<>>} \cup UNION {{<<k>> \o r : r \in NodeRefs(tree[k])} :
                      k \in {x \in DOMAIN tree : IsChildKey(x)}}

Resolves(tree, p) == RefOf(p) \in NodeRefs(tree)

\* key k is present on the node that p names
HasKey(tree, p, k) == Resolves(tree, p) /\ k \in DOMAIN NodeAt(tree, RefOf(p))

\* the calls of Bubbler.emit, and those together with the store's mutation
Emits(log) == SelectSeq(log, LAMBDA e : e.kind = "emit")
Steps(log) == SelectSeq(log, LAMBDA e : e.kind \in {"emit", "write", "remove"})

Ev(p, name) == Entry("emit", "", StripTrailing(p), name, "", 0)
Wr(p) == Entry("write", "", StripTrailing(p), "", "", 0)

Returned(v) == last.err = NoErr /\ last.ret = v

-----------------------------------------------------------------------------
(* Claims about the Store, checked under SpecStore *)

\* C1: after save(p, k, v) returned, get(p, k) returns v
C1_SaveThenGet ==
  (last.op = "save" /\ last.err = NoErr) =>
    \A lib \in Libs :
      LET g == get(World(lib), last.path, <<last.args[1]>>)
      IN  g.err = NoErr /\ g.ret = last.args[2]

\* C1 witness: a save that overwrote another value of the key, below the root
C1_Witness ==
  /\ last.op = "save" /\ last.err = NoErr /\ last.path = AB
  /\ HasKey(last.pre, AB, <<"x">>)
  /\ last.args = <<Str(<<"x">>), Num(2)>>
  /\ NodeAt(last.pre, RefOf(AB))[<<"x">>] = Num(1)

\* C2: a save that has to create a node of p creates every node of p and
\* emits pre-create, pre-update, post-create, post-update at p, in this order,
\* with the write between pre-update and post-create
C2_CreatingSave ==
  (last.op = "save" /\ ~Resolves(last.pre, last.path)) =>
    /\ last.err = NoErr
    /\ \A i \in 0..Len(RefOf(last.path)) :
         SubSeq(RefOf(last.path), 1, i) \in NodeRefs(data)
    /\ Steps(last.log) =
         <<Ev(last.path, "pre-create"), Ev(last.path, "pre-update"),
           Wr(last.path),
           Ev(last.path, "post-create"), Ev(last.path, "post-update")>>

\* C2 witness: save('/a/b', ...) on the empty store created /a and /a/b
C2_Witness ==
  /\ last.op = "save" /\ last.path = AB /\ last.pre = EmptyMap
  /\ RefOf(A) \in NodeRefs(data) /\ RefOf(AB) \in NodeRefs(data)
  /\ Len(Emits(last.log)) = 4

\* C3: a save of a key already present on the node at p emits pre-update and
\* post-update at p and nothing else, also when the value does not change
C3_UpdateOnly ==
  (last.op = "save" /\ HasKey(last.pre, last.path, last.args[1].s)) =>
    /\ last.err = NoErr
    /\ Emits(last.log) =
         <<Ev(last.path, "pre-update"), Ev(last.path, "post-update")>>

\* C3 witness: the key was saved again with the value it already had
C3_Witness ==
  /\ last.op = "save" /\ HasKey(last.pre, last.path, last.args[1].s)
  /\ NodeAt(last.pre, RefOf(last.path))[last.args[1].s] = last.args[2]
  /\ Len(Emits(last.log)) = 2

\* save ran in create mode: pre-create precedes pre-update, post-create
\* precedes post-update
InCreateMode ==
  Emits(last.log) =
    <<Ev(last.path, "pre-create"), Ev(last.path, "pre-update"),
      Ev(last.path, "post-create"), Ev(last.path, "post-update")>>

\* C4: save runs in create mode if and only if a node was created or the key
\* was not yet present on the node at p
C4_CreateModeIff ==
  last.op = "save" =>
    (InCreateMode <=>
       (~Resolves(last.pre, last.path)
          \/ ~HasKey(last.pre, last.path, last.args[1].s)))

\* C5: delete(p, k) with k absent from the existing node at p returns false,
\* emits nothing and leaves the tree as it was
C5_DeleteAbsentKey ==
  (/\ last.op = "delete" /\ Len(last.args) = 1
   /\ Resolves(last.pre, last.path)
   /\ ~HasKey(last.pre, last.path, last.args[1].s)) =>
    /\ Returned(Bool(FALSE))
    /\ last.log = <<>>
    /\ data = last.pre

\* C5 witness: the node holds another key than the one deleted
C5_Witness ==
  /\ last.op = "delete" /\ last.args = <<Str(<<"y">>)>> /\ last.path = A
  /\ HasKey(last.pre, A, <<"x">>) /\ ~HasKey(last.pre, A, <<"y">>)
  /\ Returned(Bool(FALSE))

\* delete(p) without a key did what is claimed of it: pre-delete and
\* post-delete at p, true returned, p and the nodes below it gone, every
\* other node as it was
NodeDeleted ==
  /\ Returned(Bool(TRUE))
  /\ Emits(last.log) =
       <<Ev(last.path, "pre-delete"), Ev(last.path, "post-delete")>>
  /\ \A q \in PathArgs :
       IsPrefix(RefOf(last.path), RefOf(q)) =>
         exists(World(AnyLib), q, <<>>).ret = Bool(FALSE)
  /\ NodeRefs(data) =
       {r \in NodeRefs(last.pre) : ~IsPrefix(RefOf(last.path), r)}
  /\ \A r \in NodeRefs(data) :
       LeafEntries(NodeAt(data, r)) = LeafEntries(NodeAt(last.pre, r))

\* C6: delete(p) without a key removes the node at p and its subtree, for
\* every path p that resolves
C6_DeleteAnyNode ==
  (last.op = "delete" /\ last.args = <<>> /\ Resolves(last.pre, last.path)) =>
    NodeDeleted

\* what C6 says does hold of every path that resolves and has a parent: the
\* root is the only node delete(p) fails on
C6_DeleteNode ==
  (/\ last.op = "delete" /\ last.args = <<>>
   /\ Resolves(last.pre, last.path)
   /\ RefOf(last.path) # <<>>) =>
    NodeDeleted

\* such a delete: /a was deleted while it had the child /a/b and the sibling /b
C6_Witness ==
  /\ last.op = "delete" /\ last.args = <<>> /\ last.path = A
  /\ Resolves(last.pre, AB) /\ Resolves(last.pre, BTrail)
  /\ ~Resolves(data, A) /\ ~Resolves(data, AB) /\ Resolves(data, BTrail)

\* C7: delete and get on a path that does not resolve raise NotFound, emit
\* nothing and change nothing
C7_NotFound ==
  (last.op \in {"delete", "get"} /\ ~Resolves(last.pre, last.path)) =>
    /\ last.err = "NotFound"
    /\ last.log = <<>>
    /\ data = last.pre

\* C8: exists(p) is false when p does not resolve and true when it does,
\* exists(p, k) says whether k is present on the node at p; exists never
\* raises and never changes the store
C8_Exists ==
  last.op = "exists" =>
    /\ Returned(Bool(IF last.args = <<>>
                       THEN Resolves(last.pre, last.path)
                       ELSE HasKey(last.pre, last.path, last.args[1].s)))
    /\ data = last.pre

\* C8 witness: exists('/a/b') answered false in a store that has /a only
C8_Witness ==
  /\ last.op = "exists" /\ last.path = AB /\ last.args = <<>>
  /\ Resolves(data, A) /\ ~Resolves(data, AB)
  /\ Returned(Bool(FALSE))

-----------------------------------------------------------------------------
(* Claims about the Bubbler, checked under Spec *)

\* the subscriptions: the wrappers on the direct bus, with their paths
Subscriptions ==
  UNION {{[path |-> q, sub |-> eventBus[q][i]] : i \in 1..Len(eventBus[q])} :
           q \in DOMAIN eventBus}

\* the subscription also listens on the bubble bus
Bubbling(s) == Contains(Listeners(bubbleBus, s.path), s.sub)

Unfiltered(s) == s.sub.filters = NoFilters

\* how often the call invoked the subscription's callback
Invocations(s) ==
  Cardinality({i \in 1..Len(last.log) :
                 last.log[i].kind = "call" /\ last.log[i].id = s.sub.id})

StrictAncestor(q, p) == RefOf(q) # RefOf(p) /\ IsPrefix(RefOf(q), RefOf(p))

\* C9: an emit at p invokes an unfiltered subscription at q exactly when q
\* is p or, for a bubbling subscription, a strict ancestor of p; the emit
\* succeeds and creates no node, whether or not p exists in the store
C9_WhoIsInvoked ==
  last.op = "emit" =>
    /\ last.err = NoErr
    /\ data = last.pre
    /\ \A s \in Subscriptions :
         Unfiltered(s) =>
           (Invocations(s) > 0 <=>
              \/ RefOf(s.path) = RefOf(last.path)
              \/ Bubbling(s) /\ StrictAncestor(s.path, last.path))

\* the dispatches of the call: the bus and the node dispatched on
Dispatches(log) ==
  LET ds == SelectSeq(log, LAMBDA e : e.kind = "dispatch")
  IN  [i \in 1..Len(ds) |-> <<ds[i].bus, RefOf(ds[i].path)>>]

\* the direct bus at p, then the bubble bus at the strict ancestors of p from
\* the nearest up to the root
DirectThenAncestors(p) ==
  LET n == Len(RefOf(p))
  IN  [i \in 1..(n + 1) |->
         IF i = 1 THEN <<"direct", RefOf(p)>>
                  ELSE <<"bubble", SubSeq(RefOf(p), 1, n + 1 - i)>>]

\* C10: an emit at p dispatches on the direct bus at p and then on the bubble
\* bus at each strict ancestor up to the root, and a bubbling subscriber at
\* the root is invoked exactly once by every emit
C10_RootOnce ==
  last.op = "emit" =>
    /\ Dispatches(last.log) = DirectThenAncestors(last.path)
    /\ \A s \in Subscriptions :
         (RefOf(s.path) = <<>> /\ Bubbling(s) /\ Unfiltered(s)) =>
           Invocations(s) = 1

-----------------------------------------------------------------------------
(* Claims about the registries, checked under Spec *)

\* the wrappers registered at path q on either bus
ListenersAt(q) ==
  {Listeners(eventBus, q)[i] : i \in 1..Len(Listeners(eventBus, q))}
    \cup {Listeners(bubbleBus, q)[i] : i \in 1..Len(Listeners(bubbleBus, q))}

\* the paths other than q that hold a listener before or after a step
OtherPaths(q) ==
  (DOMAIN eventBus \cup DOMAIN bubbleBus
     \cup DOMAIN eventBus' \cup DOMAIN bubbleBus') \ {q}

\* the step leaves the listeners at path q as they were, on both buses
KeptAt(q) ==
  /\ Listeners(eventBus', q) = Listeners(eventBus, q)
  /\ Listeners(bubbleBus', q) = Listeners(bubbleBus, q)

\* C12: once unsubscribe(p, cb) was called, no listener for cb remains at p,
\* on the direct bus or on the bubble bus
C12_NoneLeftAtPath ==
  last.op = "unsubscribe" =>
    \A l \in ListenersAt(cleanPath(last.path)) : l.cb # last.args[1].s

\* C13: unsubscribe(p1, cb) leaves the listeners at every other path as they
\* were, on both buses
C13_OtherPathsKept ==
  [][last'.op = "unsubscribe" =>
       \A q \in OtherPaths(cleanPath(last'.path)) : KeptAt(q)]_vars

\* C13 witness: cb was subscribed at /a and at /a/b, and after
\* unsubscribe('/a', cb) its subscription at /a/b is on both buses
C13_Witness ==
  /\ last.op = "unsubscribe" /\ last.path = A /\ last.args = <<Str("f")>>
  /\ \E l \in ListenersAt(AB) :
       /\ l.cb = "f"
       /\ Contains(Listeners(eventBus, AB), l)
       /\ Contains(Listeners(bubbleBus, AB), l)

\* C14: clearSubscriptions(p) leaves no listener at p on either bus and
\* leaves the listeners at every other path as they were
C14_ClearedAtPathOnly ==
  [][last'.op = "clearSubscriptions" =>
       /\ Listeners(eventBus', cleanPath(last'.path)) = <<>>
       /\ Listeners(bubbleBus', cleanPath(last'.path)) = <<>>
       /\ \A q \in OtherPaths(cleanPath(last'.path)) : KeptAt(q)]_vars

-----------------------------------------------------------------------------
(* Claims about the facade, checked under SpecFacade *)

\* C15: Giza.get(path, options) with a callback subscribes it at path, on the
\* direct bus, and on the bubble bus exactly when options.recursive is true
C15_RecursiveIsBubble ==
  (/\ last.op = "gizaGet" /\ last.err = NoErr
   /\ last.args # <<>> /\ Has(last.args[1].o, "callback")) =>
    LET l == callbacks[FnText(last.args[1].o["callback"].cb)]
        q == cleanPath(last.path)
    IN  /\ Contains(Listeners(eventBus, q), l)
        /\ Contains(Listeners(bubbleBus, q), l)
             <=> (/\ Has(last.args[1].o, "recursive")
                  /\ Truthy(last.args[1].o["recursive"]))

-----------------------------------------------------------------------------
(* Claims about filters and the triggered option, checked under SpecFilter *)

\* an object of type t is stored at p: Giza.save(path, val, type) forwards the
\* type as the value that Store.save writes on the node at path
HasType(tree, p, t) ==
  /\ Resolves(tree, p)
  /\ \E k \in DOMAIN LeafEntries(NodeAt(tree, RefOf(p))) :
       NodeAt(tree, RefOf(p))[k] = t

\* the filters of a subscription that was given the one filter {types: ts}
TypesFilter(ts) == <<Filter(StrList(ts), Undefined)>>

\* C11: with a store attached, a subscriber at p with the filter
\* {types: ['user']} is invoked by an emit at p exactly when the object stored
\* at p has the type 'user', and one with {types: []} whatever the type
C11_TypeFromStore ==
  (last.op = "emit" /\ last.err = NoErr /\ store /\ Len(last.args) = 1) =>
    \A s \in Subscriptions :
      (s.path = cleanPath(last.path) /\ Truthy(s.sub.triggered)) =>
        /\ s.sub.filters = TypesFilter(<<"user">>) =>
             (Invocations(s) > 0 <=> HasType(data, last.path, USER))
        /\ s.sub.filters = TypesFilter(<<>>) => Invocations(s) > 0

\* the event of the emit: its name, its triggered flag (false for an event
\* given as a string), and the type emit resolved for it
EventName == last.args[1].name
EventFlag == IF last.args[1].obj THEN last.args[1].triggered ELSE Bool(FALSE)
EventType ==
  Source(World(AnyLib), cleanPath(last.path), last.args[1], Tail(last.args)).type

\* the emit dispatched on a bus at a path where the subscription listens
Reached(s) ==
  \E i \in 1..Len(last.log) :
    /\ last.log[i].kind = "dispatch"
    /\ last.log[i].path = s.path
    /\ Contains(Listeners(IF last.log[i].bus = "direct" THEN eventBus
                                                        ELSE bubbleBus, s.path),
                s.sub)

\* the constraints of a filter set in the order they are matched: filter by
\* filter, types before names, each with the value it is matched against
ConstraintsOf(s) ==
  [i \in 1..(2 * Len(s.sub.filters)) |->
     IF i % 2 = 1
       THEN [c |-> s.sub.filters[(i + 1) \div 2].types, v |-> EventType]
       ELSE [c |-> s.sub.filters[i \div 2].names, v |-> Str(EventName)]]

\* a constraint is absent, a string, or a list of strings
Valid(x) == x.c.js \in {"undefined", "string", "array"}

\* absent and empty constraints pass, a string requires equality, a list
\* membership
Passes(x) ==
  \/ x.c.js = "undefined"
  \/ x.c.js = "string" /\ x.v.js = "string" /\ x.v.s = x.c.s
  \/ x.c.js = "array"
       /\ (x.c.a = <<>> \/ (x.v.js = "string" /\ Contains(x.c.a, x.v.s)))

HasInvalid(s) == \E i \in DOMAIN ConstraintsOf(s) : ~Valid(ConstraintsOf(s)[i])

AllPass(s) ==
  \A i \in DOMAIN ConstraintsOf(s) :
    Valid(ConstraintsOf(s)[i]) /\ Passes(ConstraintsOf(s)[i])

\* matching gets as far as a constraint that is not valid: every constraint
\* before it is valid and passes
InvalidReached(s) ==
  \E i \in DOMAIN ConstraintsOf(s) :
    /\ ~Valid(ConstraintsOf(s)[i])
    /\ \A j \in 1..(i - 1) :
         Valid(ConstraintsOf(s)[j]) /\ Passes(ConstraintsOf(s)[j])

\* C16: an emit dispatched to a subscription with a types or names value that
\* is neither a string nor a list raises, wherever that value stands and
\* whether or not another constraint already fails
C16_InvalidAlwaysRaises ==
  last.op = "emit" =>
    \A s \in Subscriptions :
      (Reached(s) /\ HasInvalid(s)) => last.err = "Error"

\* C16 as amended: the emit raises, and the subscription is not invoked, when
\* matching gets as far as the invalid value; an emit raises for no other
\* reason, so a constraint that fails before the invalid one hides it
C16_InvalidRaisesWhenReached ==
  last.op = "emit" =>
    /\ \A s \in Subscriptions :
         (Reached(s) /\ InvalidReached(s)) =>
           (last.err = "Error" /\ Invocations(s) = 0)
    /\ last.err = "Error" =>
         \E s \in Subscriptions : Reached(s) /\ InvalidReached(s)

\* C16 witness: the second filter of a set is invalid, the first one matched,
\* and the emit raised
C16_Witness ==
  /\ last.op = "emit" /\ last.err = "Error"
  /\ \E s \in Subscriptions :
       Len(s.sub.filters) = 2 /\ Reached(s) /\ InvalidReached(s)

\* C17: a subscription the emit is dispatched to is invoked exactly when all
\* its filters match and its triggered option is true or the event's
\* triggered flag is false
C17_TriggeredGate ==
  (last.op = "emit" /\ last.err = NoErr) =>
    \A s \in Subscriptions :
      Reached(s) =>
        (Invocations(s) > 0 <=>
           /\ AllPass(s)
           /\ (Truthy(s.sub.triggered) \/ EventFlag = Bool(FALSE)))

\* C17 witness: a structured event {name, triggered: true} was withheld from a
\* subscription with triggered: false whose filters match
C17_Witness ==
  /\ last.op = "emit" /\ last.err = NoErr
  /\ last.args[1] = Structured("change", Bool(TRUE))
  /\ \E s \in Subscriptions :
       /\ Reached(s) /\ AllPass(s) /\ ~Truthy(s.sub.triggered)
       /\ Invocations(s) = 0

-----------------------------------------------------------------------------
(* Claims about listeners that throw or re-enter, checked under SpecListen *)

\* the call ended where the callback "boom" was invoked and threw
EndsWhereThrown ==
  \A i \in 1..Len(last.log) :
    (last.log[i].kind = "call" /\ last.log[i].cb = "boom") =>
      (i = Len(last.log) /\ last.err = "ListenerError")

\* C18: what a listener throws reaches the caller of emit, save or delete and
\* nothing of the call follows it: no later listener, no ancestor, and in save
\* no write and no post-create or post-update once a listener has thrown
C18_ListenerErrorAborts ==
  last.op \in {"emit", "save", "delete"} =>
    /\ EndsWhereThrown
    /\ (last.op = "save" /\ last.err = "ListenerError") =>
         \A i \in 1..Len(last.log) :
           /\ last.log[i].kind # "write"
           /\ last.log[i].event \notin {"post-create", "post-update"}

\* C18 witness: a save at /a/b was aborted by a listener at /a/b, and a
\* bubbling listener at /a was never invoked
C18_Witness ==
  /\ last.op = "save" /\ last.path = AB /\ last.err = "ListenerError"
  /\ \E s \in Subscriptions :
       s.path = A /\ s.sub.cb = "f" /\ Bubbling(s) /\ Invocations(s) = 0

\* C19: when save(p, k, v) has dispatched post-update, the node at p holds v
\* for k (no listener of the model saves), whatever the listeners of the
\* earlier events did to the store
C19_PostUpdateSeesValue ==
  (last.op = "save" /\ last.err = NoErr) =>
    /\ HasKey(data, last.path, last.args[1].s)
    /\ NodeAt(data, RefOf(last.path))[last.args[1].s] = last.args[2]

\* a save was aborted by what a listener of pre-create or pre-update threw,
\* and no listener re-entered the store before
AbortedBeforeWrite ==
  /\ last.op = "save" /\ last.err = "ListenerError"
  /\ \A i \in 1..Len(last.log) : last.log[i].kind # "remove"

\* C20: a save aborted by a listener of pre-create or pre-update leaves the
\* tree as it was before the call
C20_AbortedSaveLeavesTree ==
  AbortedBeforeWrite => data = last.pre

\* C20 as amended: such a save writes no key, but the nodes of p that were
\* missing stay behind as empty nodes, so that p exists afterwards
C20_AbortedSaveLeavesNodes ==
  AbortedBeforeWrite =>
    /\ NodeRefs(data) =
         NodeRefs(last.pre)
           \cup {SubSeq(RefOf(last.path), 1, i) : i \in 0..Len(RefOf(last.path))}
    /\ \A r \in NodeRefs(data) :
         LeafEntries(NodeAt(data, r)) =
           IF r \in NodeRefs(last.pre) THEN LeafEntries(NodeAt(last.pre, r))
                                       ELSE EmptyMap
    /\ exists(World(AnyLib), last.path, <<>>).ret = Bool(TRUE)

\* C20 witness: save('/a/b', ...) was aborted on the empty store and left /a
\* and /a/b behind
C20_Witness ==
  /\ AbortedBeforeWrite /\ last.path = AB /\ last.pre = EmptyMap
  /\ Resolves(data, AB)

====
